---- MODULE Spec2Model ----
(***************************************************************************)
(* Model of pulumi-neo/scripts/neo_task.py: the command-line entry point   *)
(* (main), the API client calls it makes, and the poll loop (poll_task).   *)
(*                                                                         *)
(* Python values that the code tests for truth are modelled by strings:    *)
(* "None" is None (a JSON null, an option not given), "" is the empty      *)
(* string; both are false in `if x:`.  A field of a JSON object may also   *)
(* be Missing, the key being absent: dict.get gives None for it, or the    *)
(* default it is called with.                                              *)
(*                                                                         *)
(* Time is the value of time.time() in seconds.  An HTTP call takes a      *)
(* duration drawn from CallDurations, time.sleep(n) takes n seconds.       *)
(***************************************************************************)
EXTENDS Integers, Sequences, FiniteSets, TLC

VARIABLES
    args,                 \* the parsed command line (argparse namespace)
    env,                  \* environment: access token, default organisation
    pc,                   \* position in main / poll_task
    exit_code,            \* process exit status (0 until sys.exit(1))
    exit_cause,           \* which exit point of the program was taken
    now,                  \* time.time()
    start_time,           \* poll_task: start_time
    seen_events,          \* poll_task: seen_events
    continuation_token,   \* poll_task: continuation_token
    pending_approval_id,  \* poll_task: pending_approval_id
    status,               \* poll_task: status of the current iteration
    outcome,              \* how poll_task's loop ended
    display,              \* what poll_task printed with print(format_event(..))
    approval_id,          \* main: approval_id
    posted,               \* entity_diff.add of the create request sent
    net,                  \* number of HTTP requests sent
    confirmed,            \* approval request ids acknowledged with 202
    apiFailed,            \* a create, get_task, list or send call was refused
    lastPage,             \* events returned by the latest get_events (SpecPage)
    lastRet,              \* most recent event returned to the session
    lastRetNew,           \* whether lastRet was new when it was returned
    returned,             \* non-empty event ids returned to the session
    lastHttp,             \* HTTP status of the latest get_events
    sentToken,            \* token passed to the latest get_events
    lastGoodToken,        \* last non-empty token returned by get_events
    nStatus,              \* number of get_task calls of the session
    nEvents,              \* number of get_events calls of the session
    nSleeps,              \* number of time.sleep calls of the session
    scen,                 \* progress along running, running, completed
    idle                  \* no status fetched so far stops the loop

vars == <<args, env, pc, exit_code, exit_cause, now, start_time, seen_events,
          continuation_token, pending_approval_id, status, outcome, display,
          approval_id, posted, net, confirmed, apiFailed, lastPage, lastRet, lastRetNew,
          returned, lastHttp, sentToken, lastGoodToken, nStatus,
          nEvents, nSleeps, scen, idle>>

(***************************************************************************)
(* Bounds and input sets                                                   *)
(***************************************************************************)
MaxPage == 2                       \* events per page in a poll session
MaxCliPage == 1                    \* events per page in a whole-program run

None == "None"
Missing == "Missing"
Truthy(x) == x \notin {Missing, "None", ""}

\* d.get(key) and d.get(key, default), given the field's content
Get(field) == IF field = Missing THEN None ELSE field
GetOr(field, default) == IF field = Missing THEN default ELSE field

HttpCodes == {200, 201, 202, 500}
GetCodes == {200, 500}
Statuses == {"running", "completed", "failed", "waiting_for_approval"}
Tokens == {"None", "", "t1", "t2"}
CallDurations == {0, 5}
MaxWaits == {5, 10}
PollIntervals == {5}

Event(id, type, req) == [id |-> id, type |-> type, req |-> req]
NoEvent == Event("None", "None", "None")
Events ==
    { Event("e1", "agentResponse", Missing),
      Event("e2", "approvalRequest", "req_42"),
      Event("e3", "approvalRequest", "req_41"),
      Event(Missing, "approvalRequest", "req_42") }
CliEvents ==
    { Event("e1", "agentResponse", Missing),
      Event("e2", "approvalRequest", "req_42"),
      Event("e3", "approvalRequest", Missing) }

SeqsUpTo(S, n) == UNION { [1..k -> S] : k \in 0..n }
Pages == SeqsUpTo(Events, MaxPage)
CliPages == SeqsUpTo(CliEvents, MaxCliPage)

\* what the events endpoint may answer: any page and token with 200, and an
\* error whose body, were it parsed, would hold events and a token
Responses(pages, tokens) ==
    [http : {200}, events : pages, token : tokens]
    \cup [http : GetCodes \ {200}, events : { p \in pages : Len(p) = 1 },
          token : {"t2"}]
PollResponses == Responses(Pages, Tokens)
CliResponses == Responses(CliPages, {"None", "t1"})

(***************************************************************************)
(* API client                                                              *)
(***************************************************************************)
\* get_headers: exits when the token is not set
HasToken == Truthy(env.token)

\* get_events: (events, token) of the response, or ([], None) on non-200
get_events_Degraded(http, events, token) == <<events, token>>
get_events(http, events, token) ==
    IF http = 200 THEN <<events, token>> ELSE <<<<>>, None>>

\* get_events: the continuationToken parameter, absent when the token is falsy
TokenParam(token) == IF Truthy(token) THEN token ELSE None

\* send_approval, send_cancel, send_message: success is 202 exactly
SendOk(http) == http = 202

\* format_event: dispatch on event.get("type", "unknown"); the request id
\* shown is body.get("approval_request_id", "")
format_event(event) ==
    LET event_type == GetOr(event.type, "unknown")
    IN  IF event_type = "agentResponse" THEN <<"[Neo]">>
        ELSE IF event_type = "userInput" THEN <<"[You]">>
        ELSE IF event_type = "approvalRequest"
             THEN <<"[Approval Required]", "Request ID:", GetOr(event.req, "")>>
        ELSE <<event_type>>

(***************************************************************************)
(* poll_task                                                               *)
(***************************************************************************)
\* `if elapsed > max_wait`
TimedOut_Late(elapsed, max_wait) == elapsed > 2 * max_wait
TimedOut(elapsed, max_wait) == elapsed > max_wait

\* `if event_id and event_id not in seen_events`
IsNewEvent_NoDedup(event, seen) == Truthy(Get(event.id))
IsNewEvent_AnyId(event, seen) == Get(event.id) \notin seen
IsNewEvent(event, seen) == Truthy(Get(event.id)) /\ Get(event.id) \notin seen

\* `if event.get("type") == "approvalRequest": pending_approval_id = ...`
TrackPending_KeepFirst(event, pending) ==
    IF Get(event.type) = "approvalRequest" /\ ~Truthy(pending)
    THEN Get(event.req) ELSE pending
TrackPending(event, pending) ==
    IF Get(event.type) = "approvalRequest" THEN Get(event.req) ELSE pending

\* the `for event in events` loop over one page
RECURSIVE ProcessEvents(_, _)
ProcessEvents(events, st) ==
    IF events = <<>> THEN st
    ELSE LET event == Head(events)
         IN  ProcessEvents(Tail(events),
                IF IsNewEvent(event, st.seen)
                THEN [seen |-> st.seen \cup {Get(event.id)},
                      display |-> Append(st.display,
                                    [id |-> Get(event.id),
                                     text |-> format_event(event)]),
                      pending |-> TrackPending(event, st.pending)]
                ELSE st)

\* `if new_token: continuation_token = new_token`
AdvanceToken_Always(token, new_token) == new_token
AdvanceToken(token, new_token) == IF Truthy(new_token) THEN new_token ELSE token

\* `if status in ["completed", "failed"]`
IsTerminal_None(s) == FALSE
IsTerminal(s) == s \in {"completed", "failed"}

\* `if status == "waiting_for_approval" and pending_approval_id`
AwaitsApproval(s, pending) == s = "waiting_for_approval" /\ Truthy(pending)

\* the state poll_task starts from (lines 241-244)
EnterPoll ==
    /\ pc' = "poll_top"
    /\ start_time' = now
    /\ seen_events' = {}
    /\ continuation_token' = None
    /\ pending_approval_id' = None
    /\ status' = None
    /\ outcome' = "polling"
    /\ display' = <<>>
    /\ lastPage' = <<>>
    /\ lastRet' = NoEvent
    /\ lastRetNew' = FALSE
    /\ returned' = {}
    /\ lastHttp' = 0
    /\ sentToken' = None
    /\ lastGoodToken' = None
    /\ nStatus' = 0
    /\ nEvents' = 0
    /\ nSleeps' = 0
    /\ scen' = 0
    /\ idle' = TRUE

pollVars == <<start_time, seen_events, continuation_token, pending_approval_id,
              status, outcome, display, lastPage, lastRet, lastRetNew, returned,
              lastHttp, sentToken, lastGoodToken, nStatus, nEvents,
              nSleeps, scen, idle>>
eventVars == <<seen_events, continuation_token, pending_approval_id, display,
               lastPage, lastRet, lastRetNew, returned, lastHttp, sentToken,
               lastGoodToken, nEvents>>
mainVars == <<args, env, approval_id, posted, confirmed>>
exitVars == <<exit_code, exit_cause>>

Exit(code, cause) ==
    /\ pc' = "done"
    /\ exit_code' = code
    /\ exit_cause' = cause

\* top of the loop: the timeout check
CheckTimeout ==
    /\ pc = "poll_top"
    /\ IF TimedOut(now - start_time, args.max_wait)
       THEN /\ outcome' = "timeout"
            /\ Exit(0, "timeout")
       ELSE /\ pc' = "get_task"
            /\ UNCHANGED <<outcome, exit_code, exit_cause>>
    /\ UNCHANGED <<mainVars, apiFailed, now, net, start_time, status, eventVars,
                   nStatus, nSleeps, scen, idle>>

\* the status expected of the k-th status fetch of running, running, completed
ScenStatus(k) == IF k = 3 THEN "completed" ELSE "running"

\* get_task, and `status = task.get("status", "unknown")`
GetTask ==
    /\ pc = "get_task"
    /\ IF ~HasToken
       THEN /\ Exit(1, "no_token")
            /\ outcome' = "fatal"
            /\ UNCHANGED <<now, net, status, nStatus, scen, idle, apiFailed>>
       ELSE \E http \in GetCodes, s \in Statuses, d \in CallDurations :
            /\ now' = now + d
            /\ net' = net + 1
            /\ nStatus' = nStatus + 1
            /\ IF http = 200
               THEN /\ status' = s
                    /\ pc' = "get_events"
                    /\ scen' = IF scen = 2 * nStatus /\ nStatus < 3
                                  /\ s = ScenStatus(nStatus + 1)
                               THEN scen + 1 ELSE -1
                    /\ idle' = (idle /\ s = "running")
                    /\ UNCHANGED <<outcome, exit_code, exit_cause, apiFailed>>
               ELSE /\ Exit(1, "get_task_failed")
                    /\ outcome' = "fatal"
                    /\ apiFailed' = TRUE
                    /\ UNCHANGED <<status, scen, idle>>
    /\ UNCHANGED <<mainVars, start_time, eventVars, nSleeps>>

\* get_events, the loop over its events, the token and the two status checks.
\* responses is what the endpoint may answer; record says whether the page is
\* kept in lastPage for the properties that speak of a page's events.
GetEvents(responses, record) ==
    /\ pc = "get_events"
    /\ IF ~HasToken
       THEN /\ Exit(1, "no_token")
            /\ outcome' = "fatal"
            /\ UNCHANGED <<now, net, eventVars, scen>>
       ELSE \E resp \in responses, d \in CallDurations :
            LET http == resp.http
                got == get_events(http, resp.events, resp.token)
                events == got[1]
                new_token == got[2]
                st == ProcessEvents(events,
                        [seen |-> seen_events, display |-> display,
                         pending |-> pending_approval_id])
            IN  /\ now' = now + d
                /\ net' = net + 1
                /\ nEvents' = nEvents + 1
                /\ lastHttp' = http
                /\ sentToken' = TokenParam(continuation_token)
                /\ lastGoodToken' = IF Truthy(new_token) THEN new_token
                                    ELSE lastGoodToken
                /\ lastPage' = IF record THEN events ELSE lastPage
                /\ lastRet' = IF events = <<>> THEN lastRet
                              ELSE events[Len(events)]
                /\ lastRetNew' =
                      IF events = <<>> THEN lastRetNew
                      ELSE LET last == events[Len(events)]
                           IN  /\ Truthy(last.id)
                               /\ last.id \notin seen_events
                               /\ \A i \in 1..(Len(events) - 1) :
                                      events[i].id # last.id
                /\ returned' = returned \cup
                      { events[i].id : i \in { j \in 1..Len(events) :
                                               Truthy(events[j].id) } }
                /\ seen_events' = st.seen
                /\ display' = st.display
                /\ pending_approval_id' = st.pending
                /\ continuation_token' = AdvanceToken(continuation_token, new_token)
                /\ scen' = IF scen = 2 * nEvents + 1
                              /\ Len(events) = 1
                              /\ Truthy(events[1].id)
                              /\ events[1].id \notin seen_events
                           THEN scen + 1 ELSE -1
                /\ IF IsTerminal(status)
                   THEN /\ outcome' = "terminal"
                        /\ Exit(0, "task_ended")
                   ELSE IF AwaitsApproval(status, st.pending)
                   THEN /\ outcome' = "awaiting"
                        /\ Exit(0, "awaiting_approval")
                   ELSE /\ pc' = "sleep"
                        /\ UNCHANGED <<outcome, exit_code, exit_cause>>
    /\ UNCHANGED <<mainVars, apiFailed, start_time, status, nStatus, nSleeps,
                   idle>>

\* time.sleep(poll_interval)
SleepFor(poll_interval) == poll_interval

Sleep ==
    /\ pc = "sleep"
    /\ now' = now + SleepFor(args.poll_interval)
    /\ nSleeps' = nSleeps + 1
    /\ pc' = "poll_top"
    /\ UNCHANGED <<mainVars, apiFailed, exit_code, exit_cause, net, start_time,
                   status, outcome, eventVars, nStatus, scen, idle>>

(***************************************************************************)
(* A poll session on its own: poll_task(org, task_id, 5, max_wait)         *)
(***************************************************************************)
NoArgs ==
    [org |-> "acme", list |-> FALSE, approve |-> FALSE, cancel |-> FALSE,
     task_id |-> "task_1", message |-> None, approval_id |-> None,
     stack_name |-> None, stack_project |-> None,
     repo_name |-> None, repo_org |-> None, repo_forge |-> "github",
     poll_interval |-> 5, max_wait |-> 10]

InitPoll ==
    /\ args \in { [NoArgs EXCEPT !.max_wait = w, !.poll_interval = p] :
                    w \in MaxWaits, p \in PollIntervals }
    /\ env = [token |-> "tok", default_org |-> None]
    /\ pc = "poll_top"
    /\ exit_code = 0
    /\ exit_cause = None
    /\ now = 0
    /\ start_time = 0
    /\ seen_events = {}
    /\ continuation_token = None
    /\ pending_approval_id = None
    /\ status = None
    /\ outcome = "polling"
    /\ display = <<>>
    /\ approval_id = None
    /\ posted = None
    /\ net = 0
    /\ confirmed = {}
    /\ apiFailed = FALSE
    /\ lastPage = <<>>
    /\ lastRet = NoEvent
    /\ lastRetNew = FALSE
    /\ returned = {}
    /\ lastHttp = 0
    /\ sentToken = None
    /\ lastGoodToken = None
    /\ nStatus = 0
    /\ nEvents = 0
    /\ nSleeps = 0
    /\ scen = 0
    /\ idle = TRUE

PollEvents == GetEvents(PollResponses, FALSE)

NextPoll == CheckTimeout \/ GetTask \/ PollEvents \/ Sleep

SpecPoll == InitPoll /\ [][NextPoll]_vars

(***************************************************************************)
(* A poll session whose pages are recorded: poll_task(org, task_id, 5, 5)  *)
(***************************************************************************)
InitPage ==
    /\ InitPoll
    /\ args.max_wait = 5

PageEvents == GetEvents(PollResponses, TRUE)

NextPage == CheckTimeout \/ GetTask \/ PageEvents \/ Sleep

SpecPage == InitPage /\ [][NextPage]_vars

(***************************************************************************)
(* main: the whole program                                                 *)
(***************************************************************************)
\* --repo-forge and its choices
Forges == {"github", "gitlab", "bitbucket"}
AllArgs ==
    [org : {"None", "acme"}, list : BOOLEAN, approve : BOOLEAN,
     cancel : BOOLEAN, task_id : {"None", "task_1"}, message : {"None", "hi"},
     approval_id : {"None", "req_42"},
     stack_name : {"None", "prod"}, stack_project : {"None", "infra"},
     repo_name : {"None", "site"}, repo_org : {"None", "octo"},
     repo_forge : Forges,
     poll_interval : PollIntervals, max_wait : {5}]

\* the entity context options of a command line
Context(a) == <<a.stack_name, a.stack_project, a.repo_name, a.repo_org,
                a.repo_forge>>

\* main reads the entity context options only on its way to create_task
\* (lines 471-489): a command line that names no task and no list, approve
\* or cancel takes every combination of them, any other one takes these
ContextSamples ==
    { <<"None", "None", "None", "None", "github">>,
      <<"prod", "None", "site", "None", "github">>,
      <<"prod", "infra", "site", "octo", "gitlab">> }
ArgSpace ==
    { a \in AllArgs :
        \/ ~a.list /\ ~a.approve /\ ~a.cancel /\ ~Truthy(a.task_id)
        \/ Context(a) \in ContextSamples }
EnvSpace == [token : {"None", "tok"}, default_org : {"None", "acme"}]

\* `org = args.org`, else get_default_org()
ResolvedOrg(a, e) == IF Truthy(a.org) THEN a.org ELSE e.default_org

\* `if args.stack_name and not args.stack_project`
StackRejected_Never(a) == FALSE
StackRejected(a) == Truthy(a.stack_name) /\ ~Truthy(a.stack_project)

\* `if args.repo_name and not args.repo_org`
RepoRejected(a) == Truthy(a.repo_name) /\ ~Truthy(a.repo_org)

\* create_task: entities_to_add
entities_to_add(stack_name, stack_project, repo_name, repo_org, repo_forge) ==
    (IF Truthy(stack_name) /\ Truthy(stack_project)
     THEN << [type |-> "stack", name |-> stack_name, project |-> stack_project] >>
     ELSE <<>>)
    \o
    (IF Truthy(repo_name) /\ Truthy(repo_org)
     THEN << [type |-> "repository", name |-> repo_name, org |-> repo_org,
              forge |-> repo_forge] >>
     ELSE <<>>)

\* main, from the parsed arguments to its first request: where it goes
MainTarget(a, e) ==
    IF ~Truthy(ResolvedOrg(a, e)) THEN "no_org"
    ELSE IF a.list THEN "list"
    ELSE IF a.approve \/ a.cancel
         THEN IF ~Truthy(a.task_id) THEN "no_task_id"
              ELSE IF ~Truthy(a.approval_id) /\ a.approve THEN "find_approval"
              ELSE IF a.approve THEN "send_approval"
              ELSE "send_cancel"
    ELSE IF Truthy(a.task_id) /\ ~Truthy(a.message) THEN "poll"
    ELSE IF Truthy(a.task_id) /\ Truthy(a.message) THEN "send_message"
    ELSE IF Truthy(a.message)
         THEN IF StackRejected(a) THEN "stack_project_missing"
              ELSE IF RepoRejected(a) THEN "repo_org_missing"
              ELSE "create"
    ELSE "help"

\* the exit status of each way main ends before its first request
ExitStatus_Zero(cause) == 0
ExitStatus(cause) == IF cause = "help" THEN 0 ELSE 1

Main ==
    /\ pc = "main"
    /\ LET t == MainTarget(args, env)
       IN  IF t = "poll"
           THEN /\ EnterPoll
                /\ UNCHANGED <<exitVars, approval_id>>
           ELSE IF t \in {"no_org", "no_task_id", "stack_project_missing",
                          "repo_org_missing", "help"}
           THEN /\ Exit(ExitStatus(t), t)
                /\ UNCHANGED <<pollVars, approval_id>>
           ELSE /\ pc' = t
                /\ approval_id' =
                      IF t \in {"find_approval", "send_approval", "send_cancel"}
                      THEN args.approval_id ELSE approval_id
                /\ UNCHANGED <<exitVars, pollVars>>
    /\ UNCHANGED <<args, env, posted, confirmed, apiFailed, now, net>>

\* list_tasks, and the listing
ListTasks ==
    /\ pc = "list"
    /\ IF ~HasToken
       THEN /\ Exit(1, "no_token")
            /\ UNCHANGED <<net, apiFailed>>
       ELSE \E http \in HttpCodes :
            /\ net' = net + 1
            /\ IF http = 200
               THEN /\ Exit(0, "listed")
                    /\ UNCHANGED apiFailed
               ELSE /\ Exit(1, "list_failed")
                    /\ apiFailed' = TRUE
    /\ UNCHANGED <<mainVars, now, pollVars>>

\* `for event in reversed(events)`: the request id of the last approval
\* request of the page, whatever it holds
RECURSIVE LastApproval(_)
LastApproval(events) ==
    IF events = <<>> THEN None
    ELSE LET event == events[Len(events)]
         IN  IF Get(event.type) = "approvalRequest" THEN Get(event.req)
             ELSE LastApproval(SubSeq(events, 1, Len(events) - 1))

\* --approve without --approval-id: look the id up in the first page of events
FindApproval(responses) ==
    /\ pc = "find_approval"
    /\ IF ~HasToken
       THEN /\ Exit(1, "no_token")
            /\ UNCHANGED <<net, approval_id>>
       ELSE \E resp \in responses :
            LET events == get_events(resp.http, resp.events, resp.token)[1]
                found == LastApproval(events)
            IN  /\ net' = net + 1
                /\ approval_id' = found
                /\ IF ~Truthy(found)
                   THEN Exit(1, "no_approval_id")
                   ELSE /\ pc' = "send_approval"
                        /\ UNCHANGED exitVars
    /\ UNCHANGED <<args, env, posted, confirmed, apiFailed, now, pollVars>>

\* send_approval, then poll_task
SendApproval ==
    /\ pc = "send_approval"
    /\ IF ~HasToken
       THEN /\ Exit(1, "no_token")
            /\ UNCHANGED <<net, confirmed, apiFailed, pollVars>>
       ELSE \E http \in HttpCodes :
            /\ net' = net + 1
            /\ IF SendOk(http)
               THEN /\ confirmed' = confirmed \cup {approval_id}
                    /\ EnterPoll
                    /\ UNCHANGED <<exitVars, apiFailed>>
               ELSE /\ Exit(1, "send_failed")
                    /\ apiFailed' = TRUE
                    /\ UNCHANGED <<confirmed, pollVars>>
    /\ UNCHANGED <<args, env, approval_id, posted, now>>

\* send_cancel
SendCancel ==
    /\ pc = "send_cancel"
    /\ IF ~HasToken
       THEN /\ Exit(1, "no_token")
            /\ UNCHANGED <<net, apiFailed>>
       ELSE \E http \in HttpCodes :
            /\ net' = net + 1
            /\ IF SendOk(http)
               THEN /\ Exit(0, "cancelled")
                    /\ UNCHANGED apiFailed
               ELSE /\ Exit(1, "send_failed")
                    /\ apiFailed' = TRUE
    /\ UNCHANGED <<mainVars, now, pollVars>>

\* send_message, then poll_task
SendMessage ==
    /\ pc = "send_message"
    /\ IF ~HasToken
       THEN /\ Exit(1, "no_token")
            /\ UNCHANGED <<net, apiFailed, pollVars>>
       ELSE \E http \in HttpCodes :
            /\ net' = net + 1
            /\ IF SendOk(http)
               THEN /\ EnterPoll
                    /\ UNCHANGED <<exitVars, apiFailed>>
               ELSE /\ Exit(1, "send_failed")
                    /\ apiFailed' = TRUE
                    /\ UNCHANGED pollVars
    /\ UNCHANGED <<mainVars, now>>

\* create_task, then poll_task
CreateTask ==
    /\ pc = "create"
    /\ IF ~HasToken
       THEN /\ Exit(1, "no_token")
            /\ UNCHANGED <<net, posted, apiFailed, pollVars>>
       ELSE \E http \in HttpCodes :
            /\ net' = net + 1
            /\ posted' = entities_to_add(args.stack_name, args.stack_project,
                                         args.repo_name, args.repo_org,
                                         args.repo_forge)
            /\ IF http = 201
               THEN /\ EnterPoll
                    /\ UNCHANGED <<exitVars, apiFailed>>
               ELSE /\ Exit(1, "create_failed")
                    /\ apiFailed' = TRUE
                    /\ UNCHANGED pollVars
    /\ UNCHANGED <<args, env, approval_id, confirmed, now>>

Init ==
    /\ args \in ArgSpace
    /\ env \in EnvSpace
    /\ pc = "main"
    /\ exit_code = 0
    /\ exit_cause = None
    /\ now = 0
    /\ start_time = 0
    /\ seen_events = {}
    /\ continuation_token = None
    /\ pending_approval_id = None
    /\ status = None
    /\ outcome = "none"
    /\ display = <<>>
    /\ approval_id = None
    /\ posted = None
    /\ net = 0
    /\ confirmed = {}
    /\ apiFailed = FALSE
    /\ lastPage = <<>>
    /\ lastRet = NoEvent
    /\ lastRetNew = FALSE
    /\ returned = {}
    /\ lastHttp = 0
    /\ sentToken = None
    /\ lastGoodToken = None
    /\ nStatus = 0
    /\ nEvents = 0
    /\ nSleeps = 0
    /\ scen = 0
    /\ idle = TRUE

FindApprovalId == FindApproval(CliResponses)
CliEventsFetch == GetEvents(CliResponses, FALSE)

Next ==
    \/ Main
    \/ ListTasks
    \/ FindApprovalId
    \/ SendApproval
    \/ SendCancel
    \/ SendMessage
    \/ CreateTask
    \/ CheckTimeout
    \/ GetTask
    \/ CliEventsFetch
    \/ Sleep

Spec == Init /\ [][Next]_vars

(***************************************************************************)
(* Properties of a poll session                                            *)
(***************************************************************************)
Emitted(id) == { i \in 1..Len(display) : display[i].id = id }

\* the state right after an iteration's event fetch, loop and status checks
AfterEvents ==
    \/ pc = "sleep"
    \/ pc = "done" /\ outcome \in {"terminal", "awaiting"}

\* C1: every non-empty event id returned to the session so far has been
\* emitted exactly once, however often it was returned, and nothing else was
\* emitted
C1_EmittedOnce ==
    /\ \A id \in returned : Cardinality(Emitted(id)) = 1
    /\ \A i \in 1..Len(display) : display[i].id \in returned

\* a later page repeated an event that an earlier fetch had returned
C1_Witness ==
    /\ nEvents >= 2
    /\ Truthy(lastRet.id)
    /\ ~lastRetNew
    /\ Len(display) = 1
    /\ display[1].id = lastRet.id

\* C2: every event fetch passes the last non-empty token an earlier fetch of
\* the session returned, which is the previous fetch's token when that one
\* was non-empty, and passes no token when there is none yet
C2_TokenPassed ==
    [][nEvents' = nEvents + 1 => sentToken' = lastGoodToken]_vars

\* the second fetch passed the first fetch's token and got another one
C2_Witness ==
    /\ nEvents = 2
    /\ sentToken = "t1"
    /\ lastGoodToken = "t2"

\* the task of C3: max_wait 10, poll_interval 5, no stopping status so far
C3_Case == args.max_wait = 10 /\ args.poll_interval = 5 /\ idle

\* C3 as claimed: at most 2 full iterations before the timeout
C3_AtMostTwo ==
    C3_Case => nEvents <= 2

\* C3: with max_wait 10 and poll_interval 5 and a task that never reaches a
\* stopping status, at most 3 full iterations are performed, and the loop
\* never ends with the terminal or awaiting-approval outcome
C3_AtMostThree ==
    C3_Case => /\ nEvents <= 3
               /\ outcome \notin {"terminal", "awaiting"}

\* three full iterations at elapsed 0, 5 and 10, then the timeout
C3_Witness ==
    /\ C3_Case
    /\ nEvents = 3
    /\ outcome = "timeout"

\* the case of C4: the iteration saw waiting_for_approval and the most recent
\* event returned is an approval request carrying a request id
C4_Case ==
    /\ AfterEvents
    /\ status = "waiting_for_approval"
    /\ lastRet.type = "approvalRequest"
    /\ Truthy(lastRet.req)

C4_Stops ==
    /\ pc = "done"
    /\ outcome = "awaiting"
    /\ pending_approval_id = lastRet.req

\* C4 as claimed: whatever the most recent event's id is
C4_Original ==
    C4_Case => C4_Stops

\* C4: when the status is waiting_for_approval and the most recent event
\* returned is an approval request carrying r, with a non-empty event id
\* that had not been returned before, the loop stops in that iteration,
\* awaiting approval, with r as the pending approval id
C4_StopsWithLatest ==
    (C4_Case /\ lastRetNew) => C4_Stops

\* req_42 arrived after req_41 had been recorded, and the loop stopped
C4_Witness ==
    /\ C4_Case
    /\ lastRetNew
    /\ outcome = "awaiting"
    /\ lastRet.req = "req_42"
    /\ "e3" \in seen_events
    /\ pending_approval_id = "req_42"

\* what the two status checks make of a status and a pending approval id
C5_Goes(s, pending) ==
    IF s \in {"completed", "failed"} THEN <<"done", "terminal">>
    ELSE IF s = "waiting_for_approval" /\ Truthy(pending) THEN <<"done", "awaiting">>
    ELSE <<"sleep", "polling">>

\* C5: get_events gives ([], None) for a non-200 response, and the iteration
\* that made the call leaves the seen set, the token, the pending approval id
\* and the display as they were, does not exit with an error, and goes on to
\* the status checks
C5_FailedFetch ==
    /\ \A http \in HttpCodes \ {200}, page \in Pages, tok \in Tokens :
          get_events(http, page, tok) = <<<<>>, None>>
    /\ [][(nEvents' = nEvents + 1 /\ lastHttp' # 200) =>
            /\ UNCHANGED <<seen_events, continuation_token,
                           pending_approval_id, display>>
            /\ exit_code' = 0
            /\ <<pc', outcome'>> = C5_Goes(status, pending_approval_id)]_vars

\* a failed fetch in the middle of a session that had a token and events
C5_Witness ==
    /\ lastHttp = 500
    /\ pc = "sleep"
    /\ seen_events # {}
    /\ continuation_token = "t1"
    /\ pending_approval_id = "req_42"

\* C7: after status fetches running, running, completed, each followed by an
\* event fetch returning one new event, exactly three events are emitted,
\* there were exactly two sleeps, three status fetches and three event
\* fetches, and the loop has stopped with the terminal outcome
C7_ThreeIterations ==
    scen = 6 =>
        /\ Len(display) = 3
        /\ \A i \in 1..3 : \E e \in Events :
              display[i] = [id |-> Get(e.id), text |-> format_event(e)]
        /\ nSleeps = 2
        /\ nStatus = 3
        /\ nEvents = 3
        /\ pc = "done"
        /\ outcome = "terminal"
        /\ exit_code = 0

C7_Witness == scen = 6 /\ status = "completed"

(***************************************************************************)
(* Properties of one iteration's page                                      *)
(***************************************************************************)
\* positions of a page holding an id that is not in the seen set and did not
\* occur earlier in the page
UnseenAt(page, seen) ==
    { i \in 1..Len(page) :
        /\ page[i].id \notin seen
        /\ \A j \in 1..(i - 1) : page[j].id # page[i].id }

\* the same, for non-empty ids only
NewAt(page, seen) == { i \in UnseenAt(page, seen) : Truthy(page[i].id) }

\* an event fetch marked seen and emitted exactly the events at the positions
\* idx of its page, in page order, let the last approval request among them
\* replace the pending approval id, and ran the status checks afterwards
PageHandled(idx) ==
    LET page == lastPage'
        approvals == { i \in idx : Get(page[i].type) = "approvalRequest" }
        last == CHOOSE i \in approvals : \A j \in approvals : j <= i
    IN  /\ seen_events' = seen_events \cup { Get(page[i].id) : i \in idx }
        /\ Len(display') = Len(display) + Cardinality(idx)
        /\ \A k \in 1..Len(display) : display'[k] = display[k]
        /\ \A i \in idx :
              display'[Len(display) + Cardinality({ j \in idx : j <= i })]
                  = [id |-> Get(page[i].id), text |-> format_event(page[i])]
        /\ pending_approval_id' =
              IF approvals = {} THEN pending_approval_id
              ELSE Get(page[last].req)
        /\ <<pc', outcome'>> = C5_Goes(status, pending_approval_id')

\* C10 as claimed: every event whose id is not in the seen set, an absent or
\* empty id included, is marked seen and emitted
C10_Original ==
    [][nEvents' = nEvents + 1 =>
         PageHandled(UnseenAt(lastPage', seen_events))]_vars

\* C10: in every iteration every returned event with a non-empty id that is
\* not yet in the seen set is marked seen and emitted in that iteration, in
\* page order and before the status checks, and an approval request among
\* them replaces the pending approval id; an event without an id is skipped
C10_NewEventsHandled ==
    [][nEvents' = nEvents + 1 =>
         PageHandled(NewAt(lastPage', seen_events))]_vars

\* a page of a seen event and a new approval request replacing req_41
C10_Witness ==
    /\ nEvents = 2
    /\ Len(lastPage) = 2
    /\ lastPage[1].id = "e3"
    /\ lastPage[2].id = "e2"
    /\ Len(display) = 2
    /\ display[2].id = "e2"
    /\ pending_approval_id = "req_42"

(***************************************************************************)
(* Properties of the whole program                                         *)
(***************************************************************************)
\* the run creates a new task: main reaches `if args.message` at line 472
CreateRun ==
    /\ Truthy(ResolvedOrg(args, env))
    /\ ~args.list /\ ~args.approve /\ ~args.cancel
    /\ ~Truthy(args.task_id)
    /\ Truthy(args.message)

StackEntities == { i \in 1..Len(posted) : posted[i].type = "stack" }

\* C6: a create run given a stack name and no stack project ends with a
\* non-zero exit code and sends no request at all; a create request of a run
\* given both carries exactly one stack entity, with that name and project
C6_StackContext ==
    /\ (CreateRun /\ Truthy(args.stack_name) /\ ~Truthy(args.stack_project)) =>
          /\ net = 0
          /\ posted = None
          /\ pc \in {"main", "done"}
          /\ pc = "done" => exit_code # 0
    /\ (posted # None /\ Truthy(args.stack_name) /\ Truthy(args.stack_project)) =>
          /\ Cardinality(StackEntities) = 1
          /\ \A i \in StackEntities :
                posted[i] = [type |-> "stack", name |-> args.stack_name,
                             project |-> args.stack_project]

\* a create request carrying a stack and a repository was sent
C6_Witness ==
    /\ posted # None
    /\ Len(posted) = 2
    /\ posted[1].type = "stack"
    /\ net >= 1

\* an argument combination the help text calls required is missing
MissingArguments ==
    \/ ~Truthy(ResolvedOrg(args, env))
    \/ Truthy(args.stack_name) /\ ~Truthy(args.stack_project)
    \/ Truthy(args.repo_name) /\ ~Truthy(args.repo_org)
    \/ (args.approve \/ args.cancel) /\ ~Truthy(args.task_id)

\* C8 as claimed: non-zero exactly on a fatal API error or missing arguments
C8_Original ==
    pc = "done" => (exit_code # 0 <=> (apiFailed \/ MissingArguments))

\* the arguments main rejects on the path it takes
RejectedArguments ==
    \/ ~Truthy(ResolvedOrg(args, env))
    \/ /\ ~args.list
       /\ (args.approve \/ args.cancel)
       /\ ~Truthy(args.task_id)
    \/ /\ CreateRun
       /\ \/ Truthy(args.stack_name) /\ ~Truthy(args.stack_project)
          \/ Truthy(args.repo_name) /\ ~Truthy(args.repo_org)

\* the run has a request to make
NeedsRequest ==
    /\ ~RejectedArguments
    /\ \/ args.list \/ args.approve \/ args.cancel
       \/ Truthy(args.task_id) \/ Truthy(args.message)

\* --approve ended up without an approval request id to confirm
NoApprovalFound ==
    /\ ~RejectedArguments
    /\ ~args.list
    /\ args.approve
    /\ ~Truthy(approval_id)

\* C8: the exit code is non-zero exactly when a fatal API error occurred, or
\* main rejected the arguments on the path it took, or the access token is
\* not set when a request is to be made, or --approve has no approval request
\* id to send; it is zero in every other run, the poll timeout included
C8_ExitCode ==
    pc = "done" =>
        (exit_code # 0 <=>
            \/ apiFailed
            \/ RejectedArguments
            \/ NeedsRequest /\ ~HasToken
            \/ NoApprovalFound)

\* a run that ended with the poll timeout
C8_Witness ==
    /\ pc = "done"
    /\ outcome = "timeout"
    /\ exit_code = 0
    /\ nEvents >= 1

\* C9 as claimed: the pending approval id is unknown or that of an approval
\* request not yet confirmed, and no confirmed request stops the poller
C9_PendingUnresolved ==
    /\ Truthy(pending_approval_id) => pending_approval_id \notin confirmed
    /\ outcome = "awaiting" => pending_approval_id \notin confirmed
====
